---- MODULE Spec2Model ----
(***************************************************************************)
(* The speech-caching and hybrid playback subsystem of stepbystep-backend: *)
(*   - HybridAudioPlayer (src/lib/api-client.ts), the client-side queue    *)
(*     that renders remote audio files and browser utterances one by one;  *)
(*   - POST /api/text-to-speech (the second module held in                 *)
(*     src/app/api/fetch-and-simplify/route.ts), the endpoint that looks   *)
(*     up the audio cache, selects a method, calls the remote synthesizer  *)
(*     and stores its result.                                              *)
(* The browser (HTMLAudioElement, window.speechSynthesis, timers), the     *)
(* file system and the remote synthesizer are the environment: their       *)
(* answers are nondeterministic choices among the outcomes their           *)
(* interfaces allow.                                                       *)
(***************************************************************************)
EXTENDS Naturals, Integers, Sequences, FiniteSets, TLC

(* ------------------------------ bounds --------------------------------- *)

\* Longest queue handed to queueAudio in Spec.
MaxQueue == 2

\* Most steps handed to generateInstructionsAudio in SpecBatch.
MaxSteps == 2

\* Longest queue played by the single run of SpecRun.
MaxRunQueue == 3

\* Number of calls of the player's public methods in one behaviour.
MaxCalls == 3

(* ------------------------- HybridAudioPlayer --------------------------- *)

\* A field that is absent (undefined / null) in the JavaScript object.
Undefined == "undefined"

\* JavaScript truthiness of an optional string field as the code tests it.
Truthy(x) == x # Undefined /\ x # ""

\* The player instances.  Spec and SpecRun drive instance "A".
Players == {"A", "B"}

Driven == {"A"}

\* Queue items, by the fields playNextInQueue reads: a remote result with
\* its url, a browser result carrying its text, a browser result without
\* text (what generateInstructionsAudio returns for a browser step) and a
\* failed result (no method, no url).
Items ==
  { [method |-> "openai",  audioUrl |-> "url",     text |-> Undefined],
    [method |-> "browser", audioUrl |-> Undefined, text |-> "txt"],
    [method |-> "browser", audioUrl |-> Undefined, text |-> Undefined],
    [method |-> Undefined, audioUrl |-> Undefined, text |-> Undefined] }

RECURSIVE SeqsUpTo(_, _)
SeqsUpTo(S, n) ==
  IF n = 0 THEN {<<>>}
  ELSE LET shorter == SeqsUpTo(S, n - 1)
       IN  shorter \cup {Append(s, x) : s \in {t \in shorter : Len(t) = n - 1}, x \in S}

Queues == SeqsUpTo(Items, MaxQueue)

VARIABLES
  audioQueue,      \* [Players -> Seq(Items)]      this.audioQueue
  currentStep,     \* [Players -> Nat]             this.currentStep
  isPlaying,       \* [Players -> BOOLEAN]         this.isPlaying
  audio,           \* [Players -> element state]   this.audio (HTMLAudioElement)
  synth,           \* window.speechSynthesis: the utterance queue and its paused flag
  speechSupported, \* whether window.speechSynthesis exists in this browser
  rejections,      \* [Players -> Nat]  rejected promises whose catch (-> playNextInQueue) is about to run
  timers,          \* [Players -> Nat]  100 ms timers of playBrowserTTS in flight (-> playNextInQueue)
  started,         \* [Players -> Seq(Nat)]  indices whose rendering was started in this run
  done,            \* [Players -> SUBSET Nat] indices that signalled completion or failure
  cut,             \* [Players -> SUBSET Nat] indices replaced in the audio element before they signalled
  calls,           \* public method calls made so far
  recording,       \* whether started / done / cut are recorded (the specification of one run)
  trail            \* [Players -> what the page has asked of the player]: last is the
                   \* public method called last; halted holds from stop() to the next
                   \* playQueue(), pause() or resume(); held holds from a pause() made
                   \* while isPlaying to the next resume(), stop() or playQueue()

playerVars == <<audioQueue, currentStep, isPlaying, audio, synth, speechSupported,
                rejections, timers, started, done, cut, calls, recording, trail>>

\* The state of the text-to-speech endpoint (its part of the model is below).
VARIABLES
  apiKey,        \* whether process.env.OPENAI_API_KEY is set
  cacheDir,      \* whether CACHE_DIR exists
  cacheFiles,    \* [CacheKeys -> file]: the .mp3 files of CACHE_DIR
  pc,            \* [Reqs -> where the handler of the request is suspended]
  body,          \* [Reqs -> the request body]
  audioBuffer,   \* [Reqs -> the buffer generateOpenAITTS returned]
  response,      \* [Reqs -> the response sent]
  remoteCalls,   \* [Reqs -> Nat]  calls of the remote synthesizer made for the request
  lookedUp,      \* [Reqs -> how getCachedAudio ended: Undefined (not called), "hit", "null" (no file) or "error" (fs.access failed otherwise; null is returned)]
  wrote,         \* [Reqs -> BOOLEAN]  the request opened its cache file for writing
  finishedBefore, \* [Reqs -> SUBSET Reqs]  requests already answered when the request arrived
  answered,      \* Seq(Reqs): the requests in the order they were answered
  results,       \* [Reqs -> the entry generateInstructionsAudio pushes for the step the request was made for]
  batch          \* a call of generateInstructionsAudio: its steps and options, the
                 \* results array, the replies its fetches got, the fetches issued,
                 \* the request awaited and where the loop is

ttsVars == <<apiKey, cacheDir, cacheFiles, pc, body, audioBuffer, response,
             remoteCalls, lookedUp, wrote, finishedBefore, answered, results, batch>>

\* The audio element: st is "empty" (no src), "loading" (play() called, its
\* promise pending), "playing", "paused", "ended" or "error"; idx is the
\* 1-based queue index whose url is the src; awaited says whether the pending
\* play() promise is the one playAudioFile awaits (resume() drops its promise).
NoAudio == [st |-> "empty", idx |-> 0, awaited |-> FALSE]

\* The player state as one record, so that a handler and the calls it makes
\* compose as functions.
World ==
  [audioQueue |-> audioQueue, currentStep |-> currentStep, isPlaying |-> isPlaying,
   audio |-> audio, synth |-> synth, rejections |-> rejections, timers |-> timers,
   started |-> started, done |-> done, cut |-> cut, trail |-> trail]

Commit(w) ==
  /\ audioQueue' = w.audioQueue
  /\ currentStep' = w.currentStep
  /\ isPlaying' = w.isPlaying
  /\ audio' = w.audio
  /\ synth' = w.synth
  /\ rejections' = w.rejections
  /\ timers' = w.timers
  /\ started' = IF recording THEN w.started ELSE started
  /\ done' = IF recording THEN w.done ELSE done
  /\ cut' = IF recording THEN w.cut ELSE cut
  /\ trail' = w.trail
  /\ UNCHANGED <<speechSupported, recording>>
  /\ UNCHANGED ttsVars

\* audio.src = url; await audio.play()  (playAudioFile, the try block).
\* Assigning src runs the element's load algorithm: a play() promise still
\* pending is rejected (AbortError), which schedules playAudioFile's catch of
\* the replaced item; an item that was playing or paused is simply replaced.
playAudioFile(w, p, i) ==
  LET old == w.audio[p]
      live == old.st \in {"loading", "playing", "paused"} /\ old.idx \notin w.done[p]
      w1 == [w EXCEPT !.rejections[p] = IF old.st = "loading" /\ old.awaited THEN @ + 1 ELSE @,
                      !.cut[p] = IF live THEN @ \cup {old.idx} ELSE @]
  IN  [w1 EXCEPT !.audio[p] = [st |-> "loading", idx |-> i, awaited |-> TRUE],
                 !.started[p] = Append(@, i)]

\* HybridAudioPlayer.playBrowserTTS calling the module's playBrowserTTS:
\* without window.speechSynthesis the promise rejects at once and the catch
\* (a microtask) calls playNextInQueue; otherwise the utterance joins the
\* browser's queue and the method waits for onend / onerror.
playBrowserTTS(w, p, i) ==
  IF ~speechSupported
  THEN [w EXCEPT !.rejections[p] = @ + 1,
                 !.started[p] = Append(@, i),
                 !.done[p] = @ \cup {i}]
  ELSE [w EXCEPT !.synth.queue = Append(@, [owner |-> p, idx |-> i]),
                 !.started[p] = Append(@, i)]

\* HybridAudioPlayer.playNextInQueue, up to its first suspension.
playNextInQueue(w, p) ==
  IF w.currentStep[p] < Len(w.audioQueue[p])
  THEN LET i == w.currentStep[p] + 1
           item == w.audioQueue[p][i]
           w1 == [w EXCEPT !.currentStep[p] = @ + 1]
       IN  IF item.method = "openai" /\ Truthy(item.audioUrl) THEN playAudioFile(w1, p, i)
           ELSE IF item.method = "browser" /\ Truthy(item.text) THEN playBrowserTTS(w1, p, i)
           ELSE w1
  ELSE [w EXCEPT !.isPlaying[p] = FALSE]

\* this.audio.pause(): a playing element pauses; an element whose play()
\* promise is pending pauses and that promise is rejected (AbortError).
audioPause(w, p) ==
  LET a == w.audio[p]
  IN  IF a.st = "loading"
      THEN [w EXCEPT !.audio[p] = [a EXCEPT !.st = "paused", !.awaited = FALSE],
                     !.rejections[p] = IF a.awaited THEN @ + 1 ELSE @]
      ELSE IF a.st = "playing"
      THEN [w EXCEPT !.audio[p].st = "paused"]
      ELSE w

\* this.audio.play() as resume() calls it, its promise dropped: a paused
\* element plays on, an ended element plays its src again from the start;
\* an element without src or in error rejects (nobody listens).
audioPlay(w, p) ==
  IF w.audio[p].st \in {"paused", "ended"}
  THEN [w EXCEPT !.audio[p].st = "loading", !.audio[p].awaited = FALSE]
  ELSE w

\* Utterances of player p in the browser's queue.
RECURSIVE CountOwned(_, _)
CountOwned(q, p) ==
  IF q = <<>> THEN 0
  ELSE (IF Head(q).owner = p THEN 1 ELSE 0) + CountOwned(Tail(q), p)

\* window.speechSynthesis.cancel(): every queued utterance, of whichever
\* player, is removed and gets an error event (interrupted / canceled); its
\* promise rejects and the owner's catch calls playNextInQueue.
synthCancel(w) ==
  [w EXCEPT !.synth.queue = <<>>,
            !.rejections = [q \in Players |-> @[q] + CountOwned(w.synth.queue, q)]]

(* public methods *)

\* A queueAudio that keeps the cursor where it was.
queueAudioKeepingCursor(w, p, items) ==
  [w EXCEPT !.audioQueue[p] = items]

\* queueAudio(items)
queueAudio(w, p, items) ==
  [w EXCEPT !.audioQueue[p] = items, !.currentStep[p] = 0]

\* playQueue(), up to its first suspension; a new run starts the history.
playQueue(w, p) ==
  IF Len(w.audioQueue[p]) > 0
  THEN playNextInQueue([w EXCEPT !.isPlaying[p] = TRUE, !.currentStep[p] = 0,
                                 !.started[p] = <<>>, !.done[p] = {}, !.cut[p] = {}], p)
  ELSE w

\* A stop() that leaves the browser's speech alone.
stopAudioOnly(w, p) ==
  LET w1 == audioPause(w, p)
  IN  [w1 EXCEPT !.audioQueue[p] = <<>>, !.currentStep[p] = 0, !.isPlaying[p] = FALSE]

\* stop()
stop(w, p) ==
  LET w1 == audioPause(w, p)
      w2 == IF speechSupported THEN synthCancel(w1) ELSE w1
  IN  [w2 EXCEPT !.audioQueue[p] = <<>>, !.currentStep[p] = 0, !.isPlaying[p] = FALSE]

\* pause()
pause(w, p) ==
  LET w1 == audioPause(w, p)
  IN  IF speechSupported THEN [w1 EXCEPT !.synth.paused = TRUE] ELSE w1

\* resume()
resume(w, p) ==
  LET w1 == audioPlay(w, p)
  IN  IF speechSupported THEN [w1 EXCEPT !.synth.paused = FALSE] ELSE w1

(* actions: calls of the public methods *)

UserCall == calls < MaxCalls /\ calls' = calls + 1

\* The trail of player p after a call of the method named.
Called(w, p, name) ==
  [w EXCEPT !.trail[p] =
     [last   |-> name,
      halted |-> IF name = "stop" THEN TRUE
                 ELSE IF name = "queueAudio" THEN @.halted
                 ELSE FALSE,
      held   |-> IF name = "pause" THEN @.held \/ isPlaying[p]
                 ELSE IF name = "queueAudio" THEN @.held
                 ELSE FALSE]]

QueueAudio(p) ==
  /\ UserCall
  /\ \E items \in Queues : Commit(Called(queueAudio(World, p, items), p, "queueAudio"))

PlayQueue(p) ==
  /\ UserCall
  /\ Commit(Called(playQueue(World, p), p, "playQueue"))

Stop(p) ==
  /\ UserCall
  /\ Commit(Called(stop(World, p), p, "stop"))

Pause(p) ==
  /\ UserCall
  /\ Commit(Called(pause(World, p), p, "pause"))

Resume(p) ==
  /\ UserCall
  /\ Commit(Called(resume(World, p), p, "resume"))

(* actions: the browser's callbacks *)

\* A rejected promise's catch runs before the browser delivers anything
\* else (it is a microtask, or a task queued right behind the event that
\* caused it); only synchronous calls of the page can come before it.
NoRejection == \A q \in Players : rejections[q] = 0

\* The pending play() promise resolves: playback has begun and playAudioFile
\* returns.
AudioStarts(p) ==
  /\ NoRejection
  /\ audio[p].st = "loading"
  /\ audio' = [audio EXCEPT ![p].st = "playing", ![p].awaited = FALSE]
  /\ UNCHANGED <<audioQueue, currentStep, isPlaying, synth, speechSupported,
                 rejections, timers, started, done, cut, calls, recording, trail>>
  /\ UNCHANGED ttsVars

\* 'ended' fires on the audio element: the listener calls playNextInQueue.
AudioEnded(p) ==
  /\ NoRejection
  /\ audio[p].st = "playing"
  /\ Commit(playNextInQueue([World EXCEPT !.audio[p].st = "ended",
                                          !.done[p] = @ \cup {audio[p].idx}], p))
  /\ UNCHANGED calls

\* The src cannot be loaded: 'error' fires on the element (the listener
\* calls playNextInQueue) and the pending play() promise is rejected
\* (playAudioFile's catch is scheduled when that promise is the awaited one).
AudioLoadFails(p) ==
  /\ NoRejection
  /\ audio[p].st = "loading"
  /\ Commit(playNextInQueue(
       [World EXCEPT !.audio[p] = [@ EXCEPT !.st = "error", !.awaited = FALSE],
                     !.done[p] = @ \cup {audio[p].idx},
                     !.rejections[p] = IF audio[p].awaited THEN @ + 1 ELSE @], p))
  /\ UNCHANGED calls

\* play() is refused (NotAllowedError): the promise rejects, no event fires.
AudioPlayRejected(p) ==
  /\ NoRejection
  /\ audio[p].st = "loading"
  /\ audio[p].awaited
  /\ Commit([World EXCEPT !.audio[p] = [@ EXCEPT !.st = "paused", !.awaited = FALSE],
                          !.done[p] = @ \cup {audio[p].idx},
                          !.rejections[p] = @ + 1])
  /\ UNCHANGED calls

\* A decode or network error while playing: 'error' fires, the play()
\* promise was resolved long ago.
AudioDecodeError(p) ==
  /\ NoRejection
  /\ audio[p].st = "playing"
  /\ Commit(playNextInQueue([World EXCEPT !.audio[p].st = "error",
                                          !.done[p] = @ \cup {audio[p].idx}], p))
  /\ UNCHANGED calls

\* The utterance being spoken ends: onend resolves the promise, the method
\* resumes after its await and sets the 100 ms timer.
SpeechEnds ==
  /\ NoRejection
  /\ synth.queue # <<>>
  /\ ~synth.paused
  /\ LET u == Head(synth.queue)
     IN  Commit([World EXCEPT !.synth.queue = Tail(@),
                              !.done[u.owner] = @ \cup {u.idx},
                              !.timers[u.owner] = @ + 1])
  /\ UNCHANGED calls

\* The utterance being spoken fails: onerror rejects the promise and the
\* catch calls playNextInQueue.
SpeechErrors ==
  /\ NoRejection
  /\ synth.queue # <<>>
  /\ ~synth.paused
  /\ LET u == Head(synth.queue)
     IN  Commit(playNextInQueue([World EXCEPT !.synth.queue = Tail(@),
                                              !.done[u.owner] = @ \cup {u.idx}], u.owner))
  /\ UNCHANGED calls

\* The catch of playAudioFile / playBrowserTTS runs: playNextInQueue.
Catch(p) ==
  /\ rejections[p] > 0
  /\ Commit(playNextInQueue([World EXCEPT !.rejections[p] = @ - 1], p))
  /\ UNCHANGED calls

\* The 100 ms timer set after a finished utterance fires: playNextInQueue.
Timer(p) ==
  /\ NoRejection
  /\ timers[p] > 0
  /\ Commit(playNextInQueue([World EXCEPT !.timers[p] = @ - 1], p))
  /\ UNCHANGED calls

\* The fields of a player right after construction, but for its queue.
PlayerFresh ==
  /\ currentStep = [p \in Players |-> 0]
  /\ isPlaying = [p \in Players |-> FALSE]
  /\ audio = [p \in Players |-> NoAudio]
  /\ synth = [queue |-> <<>>, paused |-> FALSE]
  /\ speechSupported \in BOOLEAN
  /\ rejections = [p \in Players |-> 0]
  /\ timers = [p \in Players |-> 0]
  /\ started = [p \in Players |-> <<>>]
  /\ done = [p \in Players |-> {}]
  /\ cut = [p \in Players |-> {}]

\* No method called yet.
NoTrail == [last |-> "none", halted |-> FALSE, held |-> FALSE]

PlayerInit ==
  /\ audioQueue = [p \in Players |-> <<>>]
  /\ PlayerFresh
  /\ calls = 0
  /\ trail = [p \in Players |-> NoTrail]


(* ---------------------- POST /api/text-to-speech ----------------------- *)

\* Strings are run-length encoded: a sequence of runs [ch, n] (n >= 1 copies
\* of the symbol ch), adjacent runs holding different symbols.  A symbol is a
\* character, or a whole token where only its identity matters (a voice
\* name, a printed number).
Run(c, k) == [ch |-> c, n |-> k]

Str(c, k) == <<Run(c, k)>>

RECURSIVE StrLen(_)
StrLen(s) == IF s = <<>> THEN 0 ELSE Head(s).n + StrLen(Tail(s))

\* a + b of JavaScript strings.
Concat(a, b) ==
  IF a = <<>> THEN b
  ELSE IF b = <<>> THEN a
  ELSE IF a[Len(a)].ch = b[1].ch
  THEN SubSeq(a, 1, Len(a) - 1) \o <<Run(b[1].ch, a[Len(a)].n + b[1].n)>> \o Tail(b)
  ELSE a \o b

\* text.trim().length === 0
TrimIsEmpty(s) == \A k \in 1 .. Len(s) : s[k].ch = " "

\* The longest text the endpoint accepts.
MaxTextLen == 4000

\* OpenAI TTS pricing: 0.015 dollars per 1000 characters, here in
\* thousandths of a dollar.
costPerThousand == 15

\* calculateCost(text): (characterCount / 1000) * costPerThousand, as an
\* exact number of millionths of a dollar.
calculateCost(text) == StrLen(text) * costPerThousand

\* `${speed}`: the number printed; speeds are held in tenths.
SpeedText(speed) ==
  IF speed % 10 = 0 THEN Str(ToString(speed \div 10), 1)
  ELSE Concat(Concat(Str(ToString(speed \div 10), 1), Str(".", 1)), Str(ToString(speed % 10), 1))

\* The characters of a voice string as it is interpolated into a template
\* literal.  A voice name is one symbol; the voice string "b-alloy", which
\* the endpoint does not reject, is three.
Chars(voice) ==
  IF voice = "b-alloy"
  THEN <<Run("b", 1), Run("-", 1), Run("alloy", 1)>>
  ELSE Str(voice, 1)

\* generateCacheKey: the md5 digest of `${text}-${voice}-${speed}`.  The
\* digest is taken as injective, so the key is the digested string itself.
generateCacheKey(text, voice, speed) ==
  Concat(Concat(Concat(Concat(text, Str("-", 1)), Chars(voice)), Str("-", 1)), SpeedText(speed))

\* An optional field of a body or of an answer: absent, or present with a
\* value.
None == <<>>

Some(x) == <<x>>

\* The value of a destructured body field with its default.
OrDefault(x, d) == IF x = None THEN d ELSE x[1]

\* The request bodies sent.  The empty text also stands for a body without
\* text (!text holds of both); speeds are in tenths.
Texts ==
  { <<>>, Str(" ", 2), Str("a", 1), Str("a", MaxTextLen), Str("a", MaxTextLen + 1) }

Voices == { None, Some("echo") }

Speeds == { None, Some(5) }

\* The values of TTSRequest's method and quality.
Methods == { "openai", "browser", "auto" }

Qualities == { "standard", "high" }

\* request.json() is not validated: any string may arrive.
Bodies ==
  [text : Texts, voice : Voices, speed : Speeds, cache : BOOLEAN,
   method : Methods \cup {"other"}, quality : Qualities \cup {"other"}]

\* The bodies of the requests served at the same time: valid texts, the
\* default speed.
SharedBodies ==
  [text : {Str("a", 1), Str("a", MaxTextLen)}, voice : Voices, speed : {None}, cache : BOOLEAN,
   method : Methods, quality : Qualities]

\* Bodies whose texts and voice strings hold the character that separates
\* the parts of the cache key.
KeyTexts == { Str("a", 1), <<Run("a", 1), Run("-", 1), Run("b", 1)>> }

KeyVoices == { None, Some("b-alloy") }

KeyBodies ==
  [text : KeyTexts, voice : KeyVoices, speed : Speeds, cache : {TRUE},
   method : {"openai", "auto"}, quality : {"high"}]

\* The requests in flight at the same time.
Reqs == {"r1", "r2"}

\* Audio buffers the remote synthesizer may return.
Buffers == {"mp3a", "mp3b"}

CacheKeys ==
  { generateCacheKey(t, OrDefault(v, "alloy"), OrDefault(s, 10)) :
      t \in Texts, v \in Voices, s \in Speeds }

KeyCacheKeys ==
  { generateCacheKey(t, OrDefault(v, "alloy"), OrDefault(s, 10)) :
      t \in KeyTexts, v \in KeyVoices, s \in Speeds }

\* No file under the key.
NoFile == [buffer |-> Undefined, complete |-> FALSE]

NoResponse == [status |-> 0]

\* The fields of the body after destructuring with defaults.
Voice(r) == OrDefault(body[r].voice, "alloy")

Speed(r) == OrDefault(body[r].speed, 10)

CacheKey(r) == generateCacheKey(body[r].text, Voice(r), Speed(r))

\* A location without the file extension.
AudioUrlBare(key) == <<"/audio-cache/", key>>

\* `/audio-cache/${cacheKey}.mp3`
AudioUrl(key) ==
  <<"/audio-cache/", key, ".mp3">>

\* A selection that falls back to the browser when the key is missing.
selectMethodSubstituting(method, quality, hasKey) ==
  IF (method = "openai" \/ (method = "auto" /\ quality = "high")) /\ hasKey
  THEN "openai"
  ELSE IF method \in {"openai", "browser", "auto"}
  THEN "browser"
  ELSE "fallback"

\* Determine TTS method.
selectMethod(method, quality, hasKey) ==
  IF method = "openai" \/ (method = "auto" /\ quality = "high")
  THEN IF hasKey THEN "openai" ELSE "fallback"
  ELSE IF method = "browser" \/ (method = "auto" /\ quality = "standard")
  THEN "browser"
  ELSE "fallback"

(* responses *)

\* NextResponse.json({success: false, error}, {status}).
JsonError(code, msg) ==
  [status |-> code, kind |-> "json", success |-> Some(FALSE), error |-> Some(msg),
   method |-> None, audioUrl |-> None, cached |-> None, estimatedCost |-> None,
   text |-> None, voice |-> None, speed |-> None]

\* An answer to a cache hit that is billed like a fresh synthesis.
CachedResponseBilled(url) ==
  [status |-> 200, kind |-> "json", success |-> Some(TRUE), error |-> None,
   method |-> Some("openai"), audioUrl |-> Some(url), cached |-> Some(FALSE),
   estimatedCost |-> Some(costPerThousand), text |-> None, voice |-> None,
   speed |-> None]

\* The answer to a cache hit.
CachedResponse(url) ==
  [status |-> 200, kind |-> "json", success |-> Some(TRUE), error |-> None,
   method |-> Some("openai"), audioUrl |-> Some(url), cached |-> Some(TRUE),
   estimatedCost |-> Some(0), text |-> None, voice |-> None, speed |-> None]

\* The answer after synthesis and saveToCache.
OpenAIResponse(url, cost) ==
  [status |-> 200, kind |-> "json", success |-> Some(TRUE), error |-> None,
   method |-> Some("openai"), audioUrl |-> Some(url), cached |-> Some(FALSE),
   estimatedCost |-> Some(cost), text |-> None, voice |-> None, speed |-> None]

\* new NextResponse(audioBuffer, {headers: audio/mpeg}): the bytes
\* themselves, no JSON field at all.
BinaryResponse(buf) ==
  [status |-> 200, kind |-> "audio/mpeg", success |-> None, error |-> None,
   method |-> None, audioUrl |-> None, cached |-> None, estimatedCost |-> None,
   text |-> None, voice |-> None, speed |-> None, buffer |-> buf]

\* The descriptor for speech synthesis in the browser.
BrowserResponse(r) ==
  [status |-> 200, kind |-> "json", success |-> Some(TRUE), error |-> None,
   method |-> Some("browser"), audioUrl |-> None, cached |-> None,
   estimatedCost |-> Some(0), text |-> Some(body[r].text), voice |-> Some(Voice(r)),
   speed |-> Some(Speed(r))]

Respond(r, resp) ==
  /\ response' = [response EXCEPT ![r] = resp]
  /\ pc' = [pc EXCEPT ![r] = "done"]
  /\ answered' = Append(answered, r)

\* The handler from "Determine TTS method" to its next suspension: with
\* openai selected it calls generateOpenAITTS and waits; otherwise it
\* answers (browser descriptor, or 503).
SelectAndGo(r) ==
  LET ttsMethod == selectMethod(body[r].method, body[r].quality, apiKey)
  IN  IF ttsMethod = "openai"
      THEN /\ pc' = [pc EXCEPT ![r] = "synth"]
           /\ UNCHANGED <<response, answered>>
      ELSE IF ttsMethod = "browser"
      THEN Respond(r, BrowserResponse(r))
      ELSE Respond(r, JsonError(503, "No TTS method available"))

\* A handler that selects the method before it looks at the cache, and
\* looks only when the remote method was selected.
ValidateAndGoSelectingFirst(r) ==
  LET text == body[r].text
  IN  IF text = <<>> \/ TrimIsEmpty(text)
      THEN Respond(r, JsonError(400, "Text is required"))
      ELSE IF StrLen(text) > MaxTextLen
      THEN Respond(r, JsonError(400, "Text too long (max 4000 characters)"))
      ELSE IF /\ body[r].cache /\ body[r].method # "browser"
              /\ selectMethod(body[r].method, body[r].quality, apiKey) = "openai"
      THEN /\ pc' = [pc EXCEPT ![r] = "lookup"]
           /\ UNCHANGED <<response, answered>>
      ELSE SelectAndGo(r)

\* The handler from "Validate input" to its next suspension.
ValidateAndGo(r) ==
  LET text == body[r].text
  IN  IF text = <<>> \/ TrimIsEmpty(text)
      THEN Respond(r, JsonError(400, "Text is required"))
      ELSE IF StrLen(text) > MaxTextLen
      THEN Respond(r, JsonError(400, "Text too long (max 4000 characters)"))
      ELSE IF body[r].cache /\ body[r].method # "browser"
      THEN /\ pc' = [pc EXCEPT ![r] = "lookup"]
           /\ UNCHANGED <<response, answered>>
      ELSE SelectAndGo(r)

(* actions *)

\* A request with body b arrives; the handler calls ensureCacheDir and
\* waits for fs.access(CACHE_DIR).
Receive(r, b) ==
  /\ body' = [body EXCEPT ![r] = b]
  /\ pc' = [pc EXCEPT ![r] = "ensureDir"]
  /\ audioBuffer' = [audioBuffer EXCEPT ![r] = Undefined]
  /\ response' = [response EXCEPT ![r] = NoResponse]
  /\ remoteCalls' = [remoteCalls EXCEPT ![r] = 0]
  /\ lookedUp' = [lookedUp EXCEPT ![r] = Undefined]
  /\ wrote' = [wrote EXCEPT ![r] = FALSE]
  /\ finishedBefore' = [finishedBefore EXCEPT ![r] = {q \in Reqs \ {r} : pc[q] = "done"}]
  /\ UNCHANGED <<apiKey, cacheDir, cacheFiles, answered>>
  /\ UNCHANGED <<results, playerVars>>

\* One of the requests that are served at the same time arrives.
Post(r) ==
  /\ pc[r] = "idle"
  /\ \E b \in SharedBodies : Receive(r, b)
  /\ UNCHANGED batch

\* A request arrives whose text or voice holds the separator of the key.
PostKeyed(r) ==
  /\ pc[r] = "idle"
  /\ \E b \in KeyBodies : Receive(r, b)
  /\ UNCHANGED batch

\* A request with any body arrives.
PostAny(r) ==
  /\ pc[r] = "idle"
  /\ \E b \in Bodies : Receive(r, b)
  /\ UNCHANGED batch

\* ensureCacheDir returns: the directory is there, or mkdir made it.
EnsureCacheDir(r) ==
  /\ pc[r] = "ensureDir"
  /\ cacheDir' = TRUE
  /\ ValidateAndGo(r)
  /\ UNCHANGED <<apiKey, cacheFiles, body, audioBuffer, remoteCalls, lookedUp, wrote,
                 finishedBefore>>
  /\ UNCHANGED <<results, batch, playerVars>>

\* ensureCacheDir throws: the directory is missing and mkdir fails; the
\* handler's outer catch answers 500.
EnsureCacheDirFails(r) ==
  /\ pc[r] = "ensureDir"
  /\ ~cacheDir
  /\ Respond(r, JsonError(500, "Failed to generate speech"))
  /\ UNCHANGED <<apiKey, cacheDir, cacheFiles, body, audioBuffer, remoteCalls, lookedUp,
                 wrote, finishedBefore>>
  /\ UNCHANGED <<results, batch, playerVars>>

\* getCachedAudio returns the url: fs.access found the file (written in
\* full or not).
LookupHits(r) ==
  /\ pc[r] = "lookup"
  /\ cacheFiles[CacheKey(r)] # NoFile
  /\ lookedUp' = [lookedUp EXCEPT ![r] = "hit"]
  /\ Respond(r, CachedResponse(AudioUrl(CacheKey(r))))
  /\ UNCHANGED <<apiKey, cacheDir, cacheFiles, body, audioBuffer, remoteCalls, wrote,
                 finishedBefore>>
  /\ UNCHANGED <<results, batch, playerVars>>

\* getCachedAudio returns null: there is no file under the key.
LookupMisses(r) ==
  /\ pc[r] = "lookup"
  /\ cacheFiles[CacheKey(r)] = NoFile
  /\ lookedUp' = [lookedUp EXCEPT ![r] = "null"]
  /\ SelectAndGo(r)
  /\ UNCHANGED <<apiKey, cacheDir, cacheFiles, body, audioBuffer, remoteCalls, wrote,
                 finishedBefore>>
  /\ UNCHANGED <<results, batch, playerVars>>

\* getCachedAudio returns null although the file is there: fs.access
\* failed for another reason, and the catch does not tell the two apart.
LookupErrors(r) ==
  /\ pc[r] = "lookup"
  /\ cacheFiles[CacheKey(r)] # NoFile
  /\ lookedUp' = [lookedUp EXCEPT ![r] = "error"]
  /\ SelectAndGo(r)
  /\ UNCHANGED <<apiKey, cacheDir, cacheFiles, body, audioBuffer, remoteCalls, wrote,
                 finishedBefore>>
  /\ UNCHANGED <<results, batch, playerVars>>

\* generateOpenAITTS returns a buffer and the cost; with cache the handler
\* calls saveToCache and waits for fs.writeFile, without it the handler
\* answers with the bytes.
SynthSucceeds(r) ==
  /\ pc[r] = "synth"
  /\ remoteCalls' = [remoteCalls EXCEPT ![r] = @ + 1]
  /\ \E buf \in Buffers :
       /\ audioBuffer' = [audioBuffer EXCEPT ![r] = buf]
       /\ IF body[r].cache
          THEN /\ pc' = [pc EXCEPT ![r] = "write"]
               /\ UNCHANGED <<response, answered>>
          ELSE Respond(r, BinaryResponse(buf))
  /\ UNCHANGED <<apiKey, cacheDir, cacheFiles, body, lookedUp, wrote, finishedBefore>>
  /\ UNCHANGED <<results, batch, playerVars>>

\* A failure of generateOpenAITTS that reaches the outer catch.
SynthFailsPropagated(r) ==
  /\ pc[r] = "synth"
  /\ remoteCalls' = [remoteCalls EXCEPT ![r] = @ + 1]
  /\ Respond(r, JsonError(500, "Failed to generate speech"))
  /\ UNCHANGED <<apiKey, cacheDir, cacheFiles, body, audioBuffer, lookedUp, wrote,
                 finishedBefore>>
  /\ UNCHANGED <<results, batch, playerVars>>

\* generateOpenAITTS throws: the catch sets ttsMethod to browser and the
\* handler answers with the browser descriptor.
SynthFails(r) ==
  /\ pc[r] = "synth"
  /\ remoteCalls' = [remoteCalls EXCEPT ![r] = @ + 1]
  /\ Respond(r, BrowserResponse(r))
  /\ UNCHANGED <<apiKey, cacheDir, cacheFiles, body, audioBuffer, lookedUp, wrote,
                 finishedBefore>>
  /\ UNCHANGED <<results, batch, playerVars>>

\* fs.writeFile opens the file, truncating what was there, and starts
\* writing.
WriteOpens(r) ==
  /\ pc[r] = "write"
  /\ cacheFiles' = [cacheFiles EXCEPT ![CacheKey(r)] =
                      [buffer |-> audioBuffer[r], complete |-> FALSE]]
  /\ wrote' = [wrote EXCEPT ![r] = TRUE]
  /\ pc' = [pc EXCEPT ![r] = "writing"]
  /\ UNCHANGED <<apiKey, cacheDir, body, audioBuffer, response, remoteCalls, lookedUp,
                 finishedBefore, answered>>
  /\ UNCHANGED <<results, batch, playerVars>>

\* A saveToCache that returns the url and leaves no file behind.
WriteCompletesUnstored(r) ==
  /\ pc[r] = "writing"
  /\ cacheFiles' = [cacheFiles EXCEPT ![CacheKey(r)] = NoFile]
  /\ Respond(r, OpenAIResponse(AudioUrl(CacheKey(r)), calculateCost(body[r].text)))
  /\ UNCHANGED <<apiKey, cacheDir, body, audioBuffer, remoteCalls, lookedUp, wrote,
                 finishedBefore>>
  /\ UNCHANGED <<results, batch, playerVars>>

\* fs.writeFile resolves: saveToCache returns the url and the handler
\* answers with the openai descriptor.
WriteCompletes(r) ==
  /\ pc[r] = "writing"
  /\ cacheFiles' = [cacheFiles EXCEPT ![CacheKey(r)] =
                      [buffer |-> audioBuffer[r], complete |-> TRUE]]
  /\ Respond(r, OpenAIResponse(AudioUrl(CacheKey(r)), calculateCost(body[r].text)))
  /\ UNCHANGED <<apiKey, cacheDir, body, audioBuffer, remoteCalls, lookedUp, wrote,
                 finishedBefore>>
  /\ UNCHANGED <<results, batch, playerVars>>

\* fs.writeFile rejects (before or after opening the file): saveToCache
\* throws inside the try of the openai branch, whose catch sets ttsMethod to
\* browser; the handler answers with the browser descriptor.
WriteFails(r) ==
  /\ pc[r] \in {"write", "writing"}
  /\ Respond(r, BrowserResponse(r))
  /\ UNCHANGED <<apiKey, cacheDir, cacheFiles, body, audioBuffer, remoteCalls, lookedUp,
                 wrote, finishedBefore>>
  /\ UNCHANGED <<results, batch, playerVars>>

\* GET ?key=cacheKey: the bytes of the file of the key as fs.readFile
\* returns them, 404 when it throws, 400 without a key.
GET(cacheKey) ==
  IF cacheKey = None
  THEN [status |-> 400, kind |-> "json", buffer |-> Undefined]
  ELSE IF cacheKey[1] \in CacheKeys /\ cacheFiles[cacheKey[1]] # NoFile
  THEN [status |-> 200, kind |-> "audio/mpeg", buffer |-> cacheFiles[cacheKey[1]].buffer]
  ELSE [status |-> 404, kind |-> "json", buffer |-> Undefined]

(* the client: generateStepAudio and generateInstructionsAudio *)

\* What generateStepAudio returns for the response resp of the endpoint: the
\* parsed body of a 2xx JSON response; {success: false, error} when the
\* status is not ok or response.json() throws (a body that is not JSON).
generateStepAudio(resp) ==
  IF resp.status \in 200 .. 299 /\ resp.kind = "json"
  THEN resp
  ELSE [status |-> resp.status, kind |-> "json", success |-> Some(FALSE),
        error |-> Some("TTS request failed"), method |-> None, audioUrl |-> None,
        cached |-> None, estimatedCost |-> None, text |-> None, voice |-> None,
        speed |-> None]

\* The entry generateInstructionsAudio pushes for a step: stepNumber,
\* audioUrl, method and error.  The object literal has no text property.
StepEntry(ttsResult) ==
  [ready |-> TRUE, audioUrl |-> ttsResult.audioUrl, method |-> ttsResult.method,
   error |-> ttsResult.error, text |-> None]

\* No entry pushed yet.
NoEntry ==
  [ready |-> FALSE, audioUrl |-> None, method |-> None, error |-> None, text |-> None]

\* generateStepAudio returns in generateInstructionsAudio's loop and the
\* entry of the step is pushed.
StepAudioReturns(r) ==
  /\ pc[r] = "done"
  /\ ~results[r].ready
  /\ results' = [results EXCEPT ![r] = StepEntry(generateStepAudio(response[r]))]
  /\ UNCHANGED <<apiKey, cacheDir, cacheFiles, pc, body, audioBuffer, response,
                 remoteCalls, lookedUp, wrote, finishedBefore, answered>>
  /\ UNCHANGED <<batch, playerVars>>

NoBody ==
  [text |-> <<>>, voice |-> None, speed |-> None, cache |-> FALSE,
   method |-> "auto", quality |-> "standard"]

\* The handlers at rest, no request received yet.
HandlersIdle ==
  /\ pc = [r \in Reqs |-> "idle"]
  /\ body = [r \in Reqs |-> NoBody]
  /\ audioBuffer = [r \in Reqs |-> Undefined]
  /\ response = [r \in Reqs |-> NoResponse]
  /\ remoteCalls = [r \in Reqs |-> 0]
  /\ lookedUp = [r \in Reqs |-> Undefined]
  /\ wrote = [r \in Reqs |-> FALSE]
  /\ finishedBefore = [r \in Reqs |-> {}]
  /\ answered = <<>>
  /\ results = [r \in Reqs |-> NoEntry]

\* No call of generateInstructionsAudio.
NoBatch ==
  [steps |-> <<>>, options |-> [cache |-> None, method |-> None, quality |-> None],
   results |-> <<>>, replies |-> <<>>, issued |-> 0, awaited |-> Undefined,
   state |-> "none"]

TtsIdle ==
  /\ HandlersIdle
  /\ batch = NoBatch

\* A fresh deployment: the cache directory may not exist yet, and holds
\* nothing.
TtsInit ==
  /\ apiKey \in BOOLEAN
  /\ cacheDir \in BOOLEAN
  /\ cacheFiles = [k \in CacheKeys |-> NoFile]
  /\ TtsIdle

\* A deployment that has served requests before: the cache directory may
\* hold a file, written in full or left behind by a failed write.
TtsInitUsed ==
  /\ apiKey \in BOOLEAN
  /\ \/ cacheDir \in BOOLEAN /\ cacheFiles = [k \in CacheKeys |-> NoFile]
     \/ /\ cacheDir = TRUE
        /\ \E key \in CacheKeys, buf \in Buffers, whole \in BOOLEAN :
             cacheFiles = [k \in CacheKeys |->
                             IF k = key THEN [buffer |-> buf, complete |-> whole] ELSE NoFile]
  /\ TtsIdle

TtsNext ==
  \E r \in Reqs :
    \/ Post(r)
    \/ EnsureCacheDir(r)
    \/ EnsureCacheDirFails(r)
    \/ LookupHits(r)
    \/ LookupMisses(r)
    \/ LookupErrors(r)
    \/ SynthSucceeds(r)
    \/ SynthFails(r)
    \/ WriteOpens(r)
    \/ WriteCompletes(r)
    \/ WriteFails(r)

(* generateInstructionsAudio(steps, options) *)

\* The step numbers of the steps: not in order, not distinct.
StepNumbers == {1, 2}

Steps == [stepNumber : StepNumbers, instruction : {<<>>, Str("a", 1)}]

\* TTSOptions as generateInstructionsAudio receives them (voice and speed
\* left out).
BatchOptions ==
  [cache : {None, Some(FALSE)}, method : {None, Some("openai"), Some("browser")},
   quality : {None, Some("high")}]

\* The body generateStepAudio sends for a text: every field is present, the
\* options with their defaults.
StepBody(text, options) ==
  [text |-> text, voice |-> Some("alloy"), speed |-> Some(10),
   cache |-> options.cache # Some(FALSE),
   method |-> OrDefault(options.method, "auto"),
   quality |-> OrDefault(options.quality, "standard")]

\* What generateStepAudio returns when fetch itself rejects.
FetchError ==
  [status |-> 0, kind |-> "json", success |-> Some(FALSE),
   error |-> Some("Failed to fetch"), method |-> None, audioUrl |-> None,
   cached |-> None, estimatedCost |-> None, text |-> None, voice |-> None,
   speed |-> None]

\* The object pushed for a step: stepNumber, audioUrl, method, error.
PushedEntry(step, ttsResult) ==
  [stepNumber |-> step.stepNumber, audioUrl |-> ttsResult.audioUrl,
   method |-> ttsResult.method, error |-> ttsResult.error]

\* The step the loop is at.
CurrentStep == batch.steps[Len(batch.results) + 1]

\* The loop reaches `await generateStepAudio(step.instruction, options)`
\* for the next step: the fetch is sent and the endpoint receives it.
BatchFetch(r) ==
  /\ batch.state = "loop"
  /\ Len(batch.results) < Len(batch.steps)
  /\ pc[r] = "idle"
  /\ Receive(r, StepBody(CurrentStep.instruction, batch.options))
  /\ batch' = [batch EXCEPT !.state = "await", !.awaited = r, !.issued = @ + 1]

\* The fetch of the next step rejects (no network): generateStepAudio's
\* catch returns {success: false, error} and the entry is pushed.
BatchFetchFails ==
  /\ batch.state = "loop"
  /\ Len(batch.results) < Len(batch.steps)
  /\ batch' = [batch EXCEPT !.issued = @ + 1,
                             !.replies = Append(@, FetchError),
                             !.results = Append(@, PushedEntry(CurrentStep, FetchError))]
  /\ UNCHANGED <<apiKey, cacheDir, cacheFiles, pc, body, audioBuffer, response,
                 remoteCalls, lookedUp, wrote, finishedBefore, answered, results>>
  /\ UNCHANGED playerVars

\* A loop that gives up at the first step whose synthesis failed.
BatchStepAborts(r) ==
  /\ batch.state = "await"
  /\ batch.awaited = r
  /\ pc[r] = "done"
  /\ pc' = [pc EXCEPT ![r] = "idle"]
  /\ LET ttsResult == generateStepAudio(response[r])
     IN  batch' = [batch EXCEPT
           !.state = IF ttsResult.error # None THEN "returned" ELSE "loop",
           !.awaited = Undefined,
           !.replies = Append(@, response[r]),
           !.results = IF ttsResult.error # None THEN @
                       ELSE Append(@, PushedEntry(CurrentStep, ttsResult))]
  /\ UNCHANGED <<apiKey, cacheDir, cacheFiles, body, audioBuffer, response,
                 remoteCalls, lookedUp, wrote, finishedBefore, answered, results>>
  /\ UNCHANGED playerVars

\* The endpoint has answered the awaited fetch: generateStepAudio returns,
\* the entry of the step is pushed and the loop goes on.
BatchStepReturns(r) ==
  /\ batch.state = "await"
  /\ batch.awaited = r
  /\ pc[r] = "done"
  /\ pc' = [pc EXCEPT ![r] = "idle"]
  /\ batch' = [batch EXCEPT
       !.state = "loop",
       !.awaited = Undefined,
       !.replies = Append(@, response[r]),
       !.results = Append(@, PushedEntry(CurrentStep, generateStepAudio(response[r])))]
  /\ UNCHANGED <<apiKey, cacheDir, cacheFiles, body, audioBuffer, response,
                 remoteCalls, lookedUp, wrote, finishedBefore, answered, results>>
  /\ UNCHANGED playerVars

\* The loop is over: return results.
BatchReturns ==
  /\ batch.state = "loop"
  /\ Len(batch.results) = Len(batch.steps)
  /\ batch' = [batch EXCEPT !.state = "returned"]
  /\ UNCHANGED <<apiKey, cacheDir, cacheFiles, pc, body, audioBuffer, response,
                 remoteCalls, lookedUp, wrote, finishedBefore, answered, results>>
  /\ UNCHANGED playerVars

(* ---------------------------- specifications --------------------------- *)

vars == <<playerVars, ttsVars>>

\* The state after construction.
Init ==
  /\ PlayerInit
  /\ recording = FALSE
  /\ TtsInit
  /\ apiKey
  /\ cacheDir

Next ==
  \E p \in Driven :
    \/ QueueAudio(p)
    \/ PlayQueue(p)
    \/ Stop(p)
    \/ Pause(p)
    \/ Resume(p)
    \/ AudioStarts(p)
    \/ AudioEnded(p)
    \/ AudioLoadFails(p)
    \/ AudioPlayRejected(p)
    \/ AudioDecodeError(p)
    \/ SpeechEnds
    \/ SpeechErrors
    \/ Catch(p)
    \/ Timer(p)

Spec == Init /\ [][Next]_vars

(* One run: queueAudio(items) was called on a fresh player; playQueue() is   *)
(* called once and then only the browser's callbacks happen (no stop, pause, *)
(* resume or queueAudio).                                                    *)

RunQueues == SeqsUpTo(Items, MaxRunQueue) \ {<<>>}

RunInit ==
  /\ \E items \in RunQueues :
       audioQueue = [p \in Players |-> IF p \in Driven THEN items ELSE <<>>]
  /\ PlayerFresh
  /\ calls = 1
  /\ trail = [p \in Players |->
                IF p \in Driven THEN [NoTrail EXCEPT !.last = "queueAudio"] ELSE NoTrail]
  /\ recording = TRUE
  /\ TtsInit
  /\ apiKey
  /\ cacheDir

RunPlayQueue(p) ==
  /\ calls = 1
  /\ PlayQueue(p)

RunNext ==
  \E p \in Driven :
    \/ RunPlayQueue(p)
    \/ AudioStarts(p)
    \/ AudioEnded(p)
    \/ AudioLoadFails(p)
    \/ AudioPlayRejected(p)
    \/ AudioDecodeError(p)
    \/ SpeechEnds
    \/ SpeechErrors
    \/ Catch(p)
    \/ Timer(p)

SpecRun == RunInit /\ [][RunNext]_vars

(* A player that was handed a queue: every public method may be called,    *)
(* calls counting the calls made after that queueAudio(items).             *)

QueuedInit ==
  /\ \E items \in Queues \ {<<>>} :
       audioQueue = [p \in Players |-> IF p \in Driven THEN items ELSE <<>>]
  /\ PlayerFresh
  /\ calls = 0
  /\ trail = [p \in Players |->
                IF p \in Driven THEN [NoTrail EXCEPT !.last = "queueAudio"] ELSE NoTrail]
  /\ recording = FALSE
  /\ TtsInit
  /\ apiKey
  /\ cacheDir

SpecQueued == QueuedInit /\ [][Next]_vars

(* The endpoint serving two requests that may overlap in time. *)

InitTTS ==
  /\ PlayerInit
  /\ speechSupported
  /\ recording = FALSE
  /\ TtsInit

SpecTTS == InitTTS /\ [][TtsNext]_vars

(* The endpoint serving one request, with any body, on a cache that may  *)
(* hold a file already.                                                   *)

InitServe ==
  /\ PlayerInit
  /\ speechSupported
  /\ recording = FALSE
  /\ TtsInitUsed

ServeNext ==
  \E r \in {"r1"} :
    \/ PostAny(r)
    \/ EnsureCacheDir(r)
    \/ EnsureCacheDirFails(r)
    \/ LookupHits(r)
    \/ LookupMisses(r)
    \/ LookupErrors(r)
    \/ SynthSucceeds(r)
    \/ SynthFails(r)
    \/ WriteOpens(r)
    \/ WriteCompletes(r)
    \/ WriteFails(r)
    \/ StepAudioReturns(r)

SpecServe == InitServe /\ [][ServeNext]_vars

(* One call of generateInstructionsAudio against the endpoint.           *)

InitBatch ==
  /\ PlayerInit
  /\ speechSupported
  /\ recording = FALSE
  /\ apiKey \in BOOLEAN
  /\ cacheDir \in BOOLEAN
  /\ cacheFiles = [k \in CacheKeys |-> NoFile]
  /\ HandlersIdle
  /\ \E steps \in SeqsUpTo(Steps, MaxSteps), options \in BatchOptions :
       batch = [NoBatch EXCEPT !.steps = steps, !.options = options, !.state = "loop"]

BatchNext ==
  \/ BatchFetchFails
  \/ BatchReturns
  \/ \E r \in Reqs :
       \/ BatchFetch(r)
       \/ BatchStepReturns(r)
       \/ EnsureCacheDir(r)
       \/ EnsureCacheDirFails(r)
       \/ LookupHits(r)
       \/ LookupMisses(r)
       \/ LookupErrors(r)
       \/ SynthSucceeds(r)
       \/ SynthFails(r)
       \/ WriteOpens(r)
       \/ WriteCompletes(r)
       \/ WriteFails(r)

SpecBatch == InitBatch /\ [][BatchNext]_vars

(* Two player instances on one page, each handed a queue of renderable   *)
(* items: every public method of either may be called.                   *)

PairItems == { item \in Items : Truthy(item.audioUrl) \/ Truthy(item.text) }

PairQueues == SeqsUpTo(PairItems, MaxQueue) \ {<<>>}

PairInit ==
  /\ audioQueue \in [Players -> PairQueues]
  /\ PlayerFresh
  /\ calls = 0
  /\ trail = [p \in Players |-> [NoTrail EXCEPT !.last = "queueAudio"]]
  /\ recording = FALSE
  /\ TtsInit
  /\ apiKey
  /\ cacheDir

PairNext ==
  \E p \in Players :
    \/ QueueAudio(p)
    \/ PlayQueue(p)
    \/ Stop(p)
    \/ Pause(p)
    \/ Resume(p)
    \/ AudioStarts(p)
    \/ AudioEnded(p)
    \/ AudioLoadFails(p)
    \/ AudioPlayRejected(p)
    \/ AudioDecodeError(p)
    \/ SpeechEnds
    \/ SpeechErrors
    \/ Catch(p)
    \/ Timer(p)

SpecPair == PairInit /\ [][PairNext]_vars

(* The endpoint serving two requests whose texts and voice strings hold  *)
(* the separator of the cache key.                                        *)

InitKey ==
  /\ PlayerInit
  /\ speechSupported
  /\ recording = FALSE
  /\ apiKey = TRUE
  /\ cacheDir \in BOOLEAN
  /\ cacheFiles = [k \in KeyCacheKeys |-> NoFile]
  /\ TtsIdle

KeyNext ==
  \E r \in Reqs :
    \/ PostKeyed(r)
    \/ EnsureCacheDir(r)
    \/ EnsureCacheDirFails(r)
    \/ LookupHits(r)
    \/ LookupMisses(r)
    \/ LookupErrors(r)
    \/ SynthSucceeds(r)
    \/ SynthFails(r)
    \/ WriteOpens(r)
    \/ WriteCompletes(r)
    \/ WriteFails(r)

SpecKey == InitKey /\ [][KeyNext]_vars

(* ------------------------ claims on the player ------------------------- *)

\* Player p's audio element is sounding.
AudioSounding(p) == audio[p].st = "playing"

\* An utterance of player p is being spoken.
Speaking(p) ==
  /\ synth.queue # <<>>
  /\ ~synth.paused
  /\ Head(synth.queue).owner = p

\* Nothing of player p is in flight: no callback, no load or playback, no
\* utterance queued or spoken.
RunQuiet(p) ==
  /\ rejections[p] = 0
  /\ timers[p] = 0
  /\ audio[p].st \notin {"loading", "playing"}
  /\ CountOwned(synth.queue, p) = 0

\* The item at 1-based index i of p's queue is one playNextInQueue renders.
Renderable(p, i) ==
  LET item == audioQueue[p][i]
  IN  \/ item.method = "openai" /\ Truthy(item.audioUrl)
      \/ item.method = "browser" /\ Truthy(item.text)

\* C1: after playQueue() on a non-empty queue, whatever its items are and
\* however their rendering ends, the run comes to rest only with
\* isPlaying = false and currentStep = the queue length (stated so that a
\* finite run refutes it: once nothing of the run is in flight any more,
\* the player must have reached that state).
C1_RunReachesEnd ==
  \A p \in Driven :
    (calls > 1 /\ RunQuiet(p)) =>
      (~isPlaying[p] /\ currentStep[p] = Len(audioQueue[p]))

\* C2: an item is started only when every item started before it has
\* signalled completion or failure, and the cursor is at most one ahead of
\* the number of items that have signalled (one advance per signal).
C2_OneAdvancePerSignal ==
  \A p \in Driven :
    /\ \A k \in 1 .. Len(started[p]) - 1 : started[p][k] \in done[p]
    /\ currentStep[p] <= Cardinality(done[p]) + 1

\* C3: a player never has its audio element sounding while one of its
\* utterances is being spoken.
C3_OneRenderingAtATime ==
  \A p \in Driven : ~(AudioSounding(p) /\ Speaking(p))

\* C4: within one run the items are started in strictly increasing index,
\* each at most once, no item is replaced in the audio element before it
\* completed or failed, and every renderable item the cursor has passed was
\* started.
C4_StartedInOrderOnce ==
  \A p \in Driven :
    /\ \A j, k \in 1 .. Len(started[p]) : j < k => started[p][j] < started[p][k]
    /\ cut[p] = {}
    /\ \A i \in 1 .. currentStep[p] :
         Renderable(p, i) => \E k \in 1 .. Len(started[p]) : started[p][k] = i

\* In the player state w, player p is stopped: not playing, cursor 0, empty
\* queue, the audio element neither loading nor playing, no utterance of p
\* queued or spoken.
Stopped(w, p) ==
  /\ ~w.isPlaying[p]
  /\ w.currentStep[p] = 0
  /\ w.audioQueue[p] = <<>>
  /\ w.audio[p].st \notin {"loading", "playing"}
  /\ CountOwned(w.synth.queue, p) = 0

\* C12: from every reachable state stop() leaves the player stopped
\* (isPlaying false, currentStep 0, empty queue, audio paused, speech
\* cancelled), a second stop() changes nothing, and the player stays so
\* until the next call of a public method.
C12_StopResets ==
  \A p \in Driven :
    /\ Stopped(stop(World, p), p)
    /\ stop(stop(World, p), p) = stop(World, p)
    /\ trail[p].last = "stop" => Stopped(World, p)

\* stop() was called while an item was in flight: the catch of its
\* cancelled rendering is still to run.
C12_Witness ==
  \E p \in Driven : trail[p].last = "stop" /\ rejections[p] > 0

\* C13: after stop(), and until playQueue(), pause() or resume() is called,
\* no callback of an item that was in flight before the stop moves the
\* cursor or starts a rendering, also when queueAudio has enqueued a new
\* queue in between.
C13_StaleCallbacksDiscarded ==
  \A p \in Driven :
    trail[p].halted =>
      /\ currentStep[p] = 0
      /\ audio[p].st \notin {"loading", "playing"}
      /\ CountOwned(synth.queue, p) = 0

\* C14: from a pause() made while playing until the next resume() (or
\* stop() or playQueue()), the status does not report playing, nothing is
\* loading, playing or being spoken, and currentStep does not change.
C14_PausedHolds ==
  [][\A p \in Driven :
       trail'[p].held =>
         /\ ~isPlaying'[p]
         /\ audio'[p].st \notin {"loading", "playing"}
         /\ ~(Speaking(p))'
         /\ trail[p].held => currentStep'[p] = currentStep[p]]_vars

\* C15: while the player is playing, a step lowers currentStep only if it
\* is a call of stop() or of queueAudio().
C15_CursorLoweredOnlyByStopOrQueue ==
  [][\A p \in Driven :
       (isPlaying[p] /\ currentStep'[p] < currentStep[p]) =>
         /\ calls' = calls + 1
         /\ trail'[p].last \in {"stop", "queueAudio"}]_vars

(* ----------------------- claims on the endpoint ------------------------ *)

\* The two requests ask for the same speech: text, voice and speed after
\* the defaults.
SameSpeech(r, q) ==
  body[r].text = body[q].text /\ Voice(r) = Voice(q) /\ Speed(r) = Speed(q)

\* The request was received with caching enabled and a preference other
\* than the browser.
CacheAsked(r) == pc[r] # "idle" /\ body[r].cache /\ body[r].method # "browser"

\* The answer is the stored audio, marked cached and free.
ServedFromCache(r) ==
  /\ response[r].status = 200
  /\ response[r].method = Some("openai")
  /\ response[r].audioUrl = Some(AudioUrl(CacheKey(r)))
  /\ response[r].cached = Some(TRUE)
  /\ response[r].estimatedCost = Some(0)

\* Nothing failed while the request was served: no read error in the
\* lookup, no failed remote call, and any answer given so far is a remote
\* result.
Untroubled(r) ==
  /\ lookedUp[r] # "error"
  /\ remoteCalls[r] > 0 => audioBuffer[r] # Undefined
  /\ pc[r] = "done" => response[r].status = 200 /\ response[r].method = Some("openai")

\* C5 (as stated): two requests with the same text, voice and speed, with
\* caching enabled and a preference other than the browser, invoke the
\* remote synthesizer at most once in total, and the one answered second
\* reports cached = true and estimatedCost = 0.  Read in the claim's
\* favour: only of requests that the remote method serves without a
\* failure.
C5_SameSpeechOneRemoteCall ==
  \A r, q \in Reqs :
    (/\ r # q /\ CacheAsked(r) /\ CacheAsked(q) /\ SameSpeech(r, q)
     /\ Untroubled(r) /\ Untroubled(q)) =>
      /\ remoteCalls[r] + remoteCalls[q] <= 1
      /\ (Len(answered) = 2 /\ answered[2] = q) => ServedFromCache(q)

\* C5 (amended): when the second of two such requests arrives after the
\* first was answered with a remote result (an audioUrl), then, unless its
\* cache lookup ends in a read error, the second request does not invoke
\* the remote synthesizer, the two invoke it at most once in total, and the
\* second is answered with cached = true and estimatedCost = 0.
C5_LaterRequestServedFromStore ==
  \A r, q \in Reqs :
    (/\ r # q /\ CacheAsked(r) /\ CacheAsked(q) /\ SameSpeech(r, q)
     /\ r \in finishedBefore[q]
     /\ response[r].status = 200 /\ response[r].audioUrl # None
     /\ lookedUp[q] # "error") =>
      /\ remoteCalls[q] = 0
      /\ remoteCalls[r] + remoteCalls[q] <= 1
      /\ pc[q] = "done" => ServedFromCache(q)

\* The first request synthesized and stored the audio, the second, received
\* afterwards, has been answered from the cache.
C5_Witness ==
  \E r, q \in Reqs :
    /\ r # q /\ CacheAsked(r) /\ CacheAsked(q) /\ SameSpeech(r, q)
    /\ r \in finishedBefore[q]
    /\ remoteCalls[r] = 1 /\ response[r].audioUrl # None
    /\ pc[q] = "done" /\ lookedUp[q] = "hit"

Selected(r) ==
  \/ pc[r] \in {"synth", "write", "writing"}
  \/ /\ pc[r] = "done"
     /\ response[r].status \in {200, 503}
     /\ lookedUp[r] # "hit"

\* What the selection yielded, read off what the handler did next.
Chosen(r) ==
  IF pc[r] \in {"synth", "write", "writing"} \/ remoteCalls[r] > 0
  THEN "remote"
  ELSE IF response[r].status = 503
  THEN "unavailable"
  ELSE IF response[r].method = Some("browser")
  THEN "local"
  ELSE "none"

\* The preference and quality ask for the remote method.
WantsRemote(r) ==
  body[r].method = "openai" \/ (body[r].method = "auto" /\ body[r].quality = "high")

\* C7: for a request that reaches method selection, the remote method is
\* chosen iff it is asked for and credentials are present; asked for
\* without credentials the answer is 503, never the browser; preference
\* browser, or auto with standard quality, yields the browser; every other
\* combination yields 503.
C7_SelectionTable ==
  \A r \in Reqs :
    Selected(r) =>
      /\ (WantsRemote(r) /\ apiKey) => Chosen(r) = "remote"
      /\ (WantsRemote(r) /\ ~apiKey) => Chosen(r) = "unavailable"
      /\ (body[r].method = "browser"
            \/ (body[r].method = "auto" /\ body[r].quality = "standard"))
           => Chosen(r) = "local"
      /\ (/\ ~WantsRemote(r)
          /\ body[r].method # "browser"
          /\ ~(body[r].method = "auto" /\ body[r].quality = "standard"))
           => Chosen(r) = "unavailable"

\* A request preferring the remote method was answered 503 for want of
\* credentials.
C7_Witness ==
  \E r \in Reqs :
    /\ pc[r] = "done" /\ body[r].method = "openai" /\ ~apiKey
    /\ response[r].status = 503

\* The request's call of the remote synthesizer failed.
RemoteFailed(r) ==
  pc[r] = "done" /\ remoteCalls[r] = 1 /\ audioBuffer[r] = Undefined

\* C8: a request whose remote call fails is answered 200 with the browser
\* descriptor (text, voice, speed, no audioUrl, cost 0), leaves the cache
\* as it was, and a later request asking for the remote method with
\* credentials present still attempts the remote call.
C8_RemoteFailureDemotes ==
  \A r \in Reqs :
    RemoteFailed(r) =>
      /\ response[r].status = 200 /\ response[r].kind = "json"
      /\ response[r].success = Some(TRUE)
      /\ response[r].method = Some("browser")
      /\ response[r].text = Some(body[r].text)
      /\ response[r].voice = Some(Voice(r))
      /\ response[r].speed = Some(Speed(r))
      /\ response[r].audioUrl = None
      /\ response[r].estimatedCost = Some(0)
      /\ response[r].error = None
      /\ ~wrote[r]
      /\ \A q \in Reqs \ {r} :
           (r \in finishedBefore[q] /\ Selected(q) /\ WantsRemote(q) /\ apiKey)
             => Chosen(q) = "remote"

\* After a request was demoted, a later request has called the remote
\* synthesizer.
C8_Witness ==
  \E r, q \in Reqs :
    /\ r # q /\ RemoteFailed(r) /\ r \in finishedBefore[q]
    /\ remoteCalls[q] = 1

\* C9 (as stated): a cache lookup that ends in a read error is handled as
\* a miss, and a failure writing the cache never keeps audio that the
\* remote synthesizer produced from being returned.
C9_CacheFailureKeepsAudio ==
  \A r \in Reqs :
    pc[r] = "done" =>
      /\ lookedUp[r] = "error" => Selected(r)
      /\ audioBuffer[r] # Undefined =>
           /\ response[r].status = 200
           /\ response[r].kind = "audio/mpeg" \/ response[r].method = Some("openai")

\* The answer was produced by the remote method: synthesis succeeded and
\* the request was not demoted to the browser, or the audio came from the
\* cache.
ProducedByRemote(r) ==
  /\ pc[r] = "done"
  /\ response[r].status = 200
  /\ response[r].method # Some("browser")

\* C10 (as stated): every answer produced by the remote method has an
\* audioUrl or an error, and not both.
C10_RemoteHasUrlXorError ==
  \A r \in Reqs :
    ProducedByRemote(r) =>
      (response[r].audioUrl # None) # (response[r].error # None)

\* C11 (as stated): a descriptor whose method is browser has no audioUrl
\* and carries the text to speak, both in the endpoint's response and in
\* the entry generateInstructionsAudio returns for enqueueing.
C11_BrowserDescriptorHasText ==
  \A r \in Reqs :
    /\ (pc[r] = "done" /\ response[r].status = 200
          /\ response[r].method = Some("browser")) =>
         /\ response[r].audioUrl = None
         /\ response[r].text # None /\ ~TrimIsEmpty(response[r].text[1])
    /\ (results[r].ready /\ results[r].method = Some("browser")) =>
         /\ results[r].audioUrl = None
         /\ results[r].text # None

\* The request's text passes validation.
ValidText(r) ==
  /\ body[r].text # <<>>
  /\ ~TrimIsEmpty(body[r].text)
  /\ StrLen(body[r].text) <= MaxTextLen

\* The answer is a descriptor the client can play: a remote result with its
\* audioUrl, or a browser descriptor with its text.
Playable(resp) ==
  /\ resp.status = 200
  /\ resp.kind = "json"
  /\ \/ resp.method = Some("openai") /\ resp.audioUrl # None
     \/ resp.method = Some("browser") /\ resp.text # None

\* C16 (as stated): a valid request (preference and quality of the declared
\* values, cache directory in place) is answered with the service-level
\* error exactly when credentials are absent and the preference is openai;
\* every other valid request, so every request with preference auto, is
\* answered with a playable descriptor.
C16_ErrorOnlyWithoutAnyMethod ==
  \A r \in Reqs :
    (/\ pc[r] = "done" /\ ValidText(r)
     /\ body[r].method \in Methods /\ body[r].quality \in Qualities
     /\ response[r].status # 500) =>
      /\ response[r].status = 503 <=> (~apiKey /\ body[r].method = "openai")
      /\ response[r].status # 503 => Playable(response[r])

\* C17 (as stated): a request whose text is empty, blank or longer than 4000
\* characters is answered 400 without any cache lookup, remote call or
\* cache write; a text of exactly 4000 characters is not rejected.
C17_InvalidTextRejectedFirst ==
  \A r \in Reqs :
    pc[r] = "done" =>
      /\ ~ValidText(r) =>
           /\ response[r].status = 400
           /\ lookedUp[r] = Undefined
           /\ remoteCalls[r] = 0
           /\ ~wrote[r]
      /\ StrLen(body[r].text) = MaxTextLen => response[r].status # 400

\* C18 (as stated): under any interleaving of requests a cache key is
\* written by at most one request, and the file of a key does not change
\* once a write of it has completed.
C18_KeyWrittenOnce ==
  [][/\ \A r, q \in Reqs :
          (r # q /\ wrote'[r] /\ wrote'[q]) => CacheKey(r)' # CacheKey(q)'
     /\ \A k \in CacheKeys :
          cacheFiles[k].complete => cacheFiles'[k] = cacheFiles[k]]_vars

\* C19 (as stated): a cache lookup never hits a file that is only partly
\* written: when getCachedAudio returns the location, the file holds the
\* complete bytes of a store.
C19_NoHitOnPartialFile ==
  [][\A r \in Reqs :
       (lookedUp[r] # "hit" /\ lookedUp'[r] = "hit") =>
         cacheFiles[CacheKey(r)].complete]_vars

\* Request r has stored its audio: saveToCache returned and r was answered.
Stored(r) ==
  /\ pc[r] = "done"
  /\ response[r].status = 200
  /\ response[r].cached = Some(FALSE)

Triple(r) == <<body[r].text, Voice(r), Speed(r)>>

\* Request r has computed its cache key (route.ts line 392).
KeyComputed(r) == pc[r] \notin {"idle", "ensureDir"} /\ lookedUp[r] # Undefined

\* C21: generateCacheKey is a function of (text, voice, speed), and two
\* requests the endpoint accepts whose triples differ in a component
\* compute different keys (the digested string stands for the digest).
C21_KeyTellsTriplesApart ==
  \A r \in Reqs, q \in Reqs :
    (KeyComputed(r) /\ KeyComputed(q))
      => ((Triple(r) = Triple(q)) <=> (CacheKey(r) = CacheKey(q)))

(* ------------------------------- cost ---------------------------------- *)

\* The remote backend synthesized the text of request r: generateOpenAITTS
\* returned a buffer.
RemoteSynthesized(r) == audioBuffer[r] # Undefined

\* C22: an answered request for which the remote backend synthesized the
\* text reports estimatedCost = characters / 1000 x the rate per 1000
\* characters, and an answer reports estimatedCost 0 only when no remote
\* synthesis was performed for the request.
C22_CostReportedIffSynthesized ==
  \A r \in Reqs :
    pc[r] = "done" =>
      /\ RemoteSynthesized(r)
           => response[r].estimatedCost = Some(calculateCost(body[r].text))
      /\ response[r].estimatedCost = Some(0) => ~RemoteSynthesized(r)

(* ------------------------- local answers and cache --------------------- *)

\* Request r was answered with the descriptor for speech synthesis in the
\* browser.
AnsweredLocal(r) ==
  pc[r] = "done" /\ response[r].status = 200 /\ response[r].method = Some("browser")

\* C23: a request answered with the local (browser) descriptor has written
\* nothing to the cache, and a request with preference local never calls
\* getCachedAudio.
C23_LocalAnswerLeavesCache ==
  \A r \in Reqs :
    /\ AnsweredLocal(r) => ~wrote[r]
    /\ body[r].method = "browser" => lookedUp[r] = Undefined /\ ~wrote[r]

(* ----------------------------- termination ----------------------------- *)

\* The steps of request r that the server itself takes: the file system
\* answers its calls, and the handler runs on to its next await.  The
\* answer of the remote backend (SynthSucceeds, SynthFails) is not among
\* them: generateOpenAITTS passes no timeout and no abort signal, so
\* nothing in the handler ends the wait.
LocalStep(r) ==
  \/ EnsureCacheDir(r)
  \/ EnsureCacheDirFails(r)
  \/ LookupHits(r)
  \/ LookupMisses(r)
  \/ LookupErrors(r)
  \/ WriteOpens(r)
  \/ WriteCompletes(r)
  \/ WriteFails(r)

\* The endpoint serving one request, the server's own steps always taken
\* in the end, the remote backend free never to answer.
SpecServeFair == SpecServe /\ \A r \in Reqs : WF_vars(LocalStep(r))

\* C24: every request received is answered in the end, also when the
\* remote backend never answers.
C24_EveryRequestAnswered ==
  \A r \in Reqs : (pc[r] # "idle") ~> (pc[r] = "done")

\* The requests that wait are those waiting for the remote backend.
C24_WaitsOnlyOnRemote ==
  \A r \in Reqs : (pc[r] # "idle") ~> (pc[r] \in {"done", "synth"})

(* --------------------------- several players --------------------------- *)

\* Player p drives audio output: its audio element is sounding or one of
\* its utterances is being spoken.
Rendering(p) == AudioSounding(p) \/ Speaking(p)

\* C25: of the player instances that exist together, at most one drives
\* audio output at any time.
C25_OnePlayerRenders ==
  \A p \in Players, q \in Players : p # q => ~(Rendering(p) /\ Rendering(q))

\* What a call on another instance must leave alone of player q: its queue,
\* cursor and isPlaying flag, its audio element, and its utterances, queued
\* or being spoken.
Untouched(q) ==
  /\ audioQueue'[q] = audioQueue[q]
  /\ currentStep'[q] = currentStep[q]
  /\ isPlaying'[q] = isPlaying[q]
  /\ audio'[q] = audio[q]
  /\ CountOwned(synth'.queue, q) = CountOwned(synth.queue, q)
  /\ Speaking(q)' = Speaking(q)

\* C29: stop(), pause() and resume() called on one instance leave every
\* other instance's queue, cursor, isPlaying flag and rendering unchanged.
C29_CallLeavesOthersAlone ==
  [][\A p \in Players :
       (Stop(p) \/ Pause(p) \/ Resume(p)) => \A q \in Players \ {p} : Untouched(q)]_vars

(* ------------------------ generateInstructionsAudio -------------------- *)

\* The synthesize call of a step failed: the fetch rejected or the endpoint
\* answered with a status that is not ok.
SynthesisFailed(reply) == reply.status \notin 200 .. 299

\* C26: generateInstructionsAudio returns one entry per input step, in
\* input order and with that step's stepNumber, after one synthesize call
\* per step, never two calls at a time; the entry of a step carries an
\* error when its own call failed, and the descriptor of its own reply
\* otherwise, whatever happened to the other steps.
C26_OneEntryPerStepInOrder ==
  /\ Cardinality({r \in Reqs : pc[r] # "idle"}) <= 1
  /\ batch.issued = Len(batch.results) + (IF batch.state = "await" THEN 1 ELSE 0)
  /\ Len(batch.results) <= Len(batch.steps)
  /\ batch.state = "returned" => Len(batch.results) = Len(batch.steps)
  /\ \A k \in 1 .. Len(batch.results) :
       /\ batch.results[k].stepNumber = batch.steps[k].stepNumber
       /\ SynthesisFailed(batch.replies[k]) => batch.results[k].error # None
       /\ (~SynthesisFailed(batch.replies[k]) /\ batch.replies[k].kind = "json")
            => /\ batch.results[k].error = None
               /\ batch.results[k].method = batch.replies[k].method
               /\ batch.results[k].audioUrl = batch.replies[k].audioUrl

\* A batch of two steps has returned, the first step's synthesis failed
\* and the second step's did not.
C26_Witness ==
  /\ batch.state = "returned"
  /\ Len(batch.steps) = 2
  /\ batch.steps[1].stepNumber > batch.steps[2].stepNumber
  /\ SynthesisFailed(batch.replies[1])
  /\ batch.replies[1].status = 400
  /\ batch.results[2].method = Some("openai")

(* ------------------------------- status -------------------------------- *)

\* getStatus(): progress is the fraction num / den (den = 1 for the empty
\* queue, whose progress is the literal 0); method is left out.
getStatus(p) ==
  [isPlaying |-> isPlaying[p],
   currentStep |-> currentStep[p],
   totalSteps |-> Len(audioQueue[p]),
   progress |-> IF Len(audioQueue[p]) > 0
                THEN [num |-> currentStep[p] * 100, den |-> Len(audioQueue[p])]
                ELSE [num |-> 0, den |-> 1]]

\* C27: whenever a player is rendering an item (its audio element is
\* sounding or its utterance is being spoken), getStatus().isPlaying is
\* true.
C27_RenderingImpliesIsPlaying ==
  \A p \in Driven : Rendering(p) => getStatus(p).isPlaying

\* C28: in every reachable state 0 <= currentStep <= audioQueue.length, so
\* that getStatus().progress lies within 0..100, and it is 0 for an empty
\* queue.
C28_CursorWithinQueue ==
  \A p \in Driven :
    LET status == getStatus(p)
    IN  /\ 0 <= currentStep[p] /\ currentStep[p] <= Len(audioQueue[p])
        /\ 0 <= status.progress.num
        /\ status.progress.num <= 100 * status.progress.den
        /\ status.totalSteps = 0 => status.progress.num = 0

\* A queue was enqueued over a longer one that was being played, and a
\* callback of the old queue has moved the cursor to the end of the new.
C28_Witness ==
  \E p \in Driven :
    /\ trail[p].last = "queueAudio"
    /\ Len(audioQueue[p]) = 1
    /\ currentStep[p] = 1
    /\ isPlaying[p]

(* ----------------------- cache before selection ------------------------ *)

\* Request r (valid, caching enabled, preference other than the browser)
\* has been answered, and the file of its key was in the cache before it
\* arrived: the file is there and r did not write it.
KeyAlreadyCached(r) ==
  /\ pc[r] = "done"
  /\ CacheAsked(r)
  /\ ValidText(r)
  /\ ~wrote[r]
  /\ cacheFiles[CacheKey(r)] # NoFile

\* C30 (as stated): a request with caching enabled and a preference other
\* than the browser whose key is already in the cache is answered with the
\* cached remote descriptor, whatever the quality and the credentials.
C30_CachedKeyAlwaysServed ==
  \A r \in Reqs : KeyAlreadyCached(r) => ServedFromCache(r)

\* C30 (amended): such a request is answered with the cached remote
\* descriptor without a remote call, whatever the quality and the
\* credentials, unless its lookup failed with an error other than a missing
\* file, in which case it is treated as a miss and goes through method
\* selection.
C30_LookupPrecedesSelection ==
  \A r \in Reqs :
    KeyAlreadyCached(r) =>
      IF lookedUp[r] = "error"
      THEN Selected(r) /\ ~ServedFromCache(r)
      ELSE /\ lookedUp[r] = "hit"
           /\ ServedFromCache(r)
           /\ response[r].success = Some(TRUE)
           /\ remoteCalls[r] = 0

\* A request was answered from the cache on which the selector alone would
\* not have chosen the remote method: no credentials, or auto with standard
\* quality, or a preference outside the declared values.
C30_Witness ==
  \E r \in Reqs :
    /\ KeyAlreadyCached(r)
    /\ ServedFromCache(r)
    /\ selectMethod(body[r].method, body[r].quality, apiKey) # "openai"
    /\ ~apiKey

====
